---- MODULE Spec2Model ----
(***************************************************************************)
(* oauth-credentials-generator: the random string generator and the        *)
(* credential assembler of src/src/index.ts and the command line of        *)
(* src/bin/generate-oauth.ts.                                              *)
(*                                                                         *)
(* Text is a TLA+ string.  A JavaScript value is a record [t, n, s]: t is  *)
(* its type tag, n the value of a number counted in halves (so that 1.5 is *)
(* a value and Number.isInteger can fail), s the text of a string.         *)
(***************************************************************************)
EXTENDS Integers, Sequences, FiniteSets, TLC

VARIABLES
    pc,            \* position of the running call
    caller,        \* who called generateOAuthCredentials: "api" or "main"
    args,          \* process.argv.slice(2)
    i,             \* parseArgs: loop index (0-based, as in the source)
    cliOptions,    \* parseArgs: options
    options,       \* generateOAuthCredentials: the options argument
    idPrefix,      \* generateOAuthCredentials: effective idPrefix
    idLength,      \* generateOAuthCredentials: effective idLength
    secretLength,  \* generateOAuthCredentials: effective secretLength
    encoding,      \* effective encoding (parameter of generateRandomString)
    length,        \* generateRandomString: the length argument of a direct call
    draws,         \* every crypto.randomBytes(n) result so far, in call order
    result,        \* generateRandomString: value returned to a direct caller
    clientId,      \* generateOAuthCredentials: clientId
    clientSecret,  \* generateOAuthCredentials: clientSecret
    thrown,        \* the Error thrown and not yet caught: [name, message]
    stdout,        \* lines written by console.log
    stderr,        \* lines written by console.error
    exitCode       \* process exit status, -1 while running

vars == <<pc, caller, args, i, cliOptions, options, idPrefix, idLength,
          secretLength, encoding, length, draws, result, clientId,
          clientSecret, thrown, stdout, stderr, exitCode>>

(***************************************************************************)
(* Bounds.                                                                 *)
(***************************************************************************)
\* largest length passed explicitly to generateRandomString
MaxLen == 8
\* largest idLength / secretLength supplied explicitly in an options object
MaxOptLen == 3
\* random draws are the periodic extensions of byte patterns this long
MaxSeed == 2
\* longest list of arbitrary arguments given to the command line
MaxArgs == 3

\* byte values a draw is made of: 0x00 and 0xfe; a buffer of 0xfe bytes is
\* "/v7+" in base64, so "/" comes first and "+" occurs
ByteVals == {0, 254}

(***************************************************************************)
(* JavaScript values.                                                      *)
(***************************************************************************)
Undefined == [t |-> "undefined", n |-> 0, s |-> ""]
NaN == [t |-> "NaN", n |-> 0, s |-> ""]
Str(s) == [t |-> "string", n |-> 0, s |-> s]
\* the number h/2
Halves(h) == [t |-> "number", n |-> h, s |-> ""]
\* the integer k
Num(k) == Halves(2 * k)

TypeOf(v) == IF v.t = "NaN" THEN "number" ELSE v.t

\* Number.isInteger(v)
NumberIsInteger(v) == v.t = "number" /\ v.n % 2 = 0

\* Math.ceil(a / b) for integers a and b > 0
CeilDiv(a, b) == -((-a) \div b)

\* ToIntegerOrInfinity(v) clamped to [0, len], as String.prototype.substring
\* does with its end argument
ClampEnd(v, len) ==
    IF v.t # "number" \/ v.n < 0 THEN 0
    ELSE IF v.n \div 2 > len THEN len ELSE v.n \div 2

(***************************************************************************)
(* Text.                                                                   *)
(***************************************************************************)
CharAt(s, k) == SubSeq(s, k, k)

\* s.substring(0, end)
Substring(s, end) == SubSeq(s, 1, ClampEnd(end, Len(s)))

\* s.replace(/from/g, to) for a one-character pattern
RECURSIVE ReplaceAll(_, _, _)
ReplaceAll(s, from, to) ==
    IF Len(s) = 0 THEN ""
    ELSE (IF CharAt(s, 1) = from THEN to ELSE CharAt(s, 1))
         \o ReplaceAll(Tail(s), from, to)

Chars(s) == {CharAt(s, k) : k \in 1..Len(s)}

HexDigits == "0123456789abcdef"
Base64Alphabet ==
    "ABCDEFGHIJKLMNOPQRSTUVWXYZabcdefghijklmnopqrstuvwxyz0123456789+/"

HexChar(v) == CharAt(HexDigits, v + 1)
B64Char(v) == CharAt(Base64Alphabet, v + 1)

\* Buffer.toString("hex")
RECURSIVE ToHex(_)
ToHex(b) ==
    IF Len(b) = 0 THEN ""
    ELSE HexChar(b[1] \div 16) \o HexChar(b[1] % 16) \o ToHex(Tail(b))

\* Buffer.toString("base64"): three bytes make four characters, the last
\* group is padded with "="
RECURSIVE ToBase64(_)
ToBase64(b) ==
    IF Len(b) = 0 THEN ""
    ELSE IF Len(b) = 1 THEN
        B64Char(b[1] \div 4) \o B64Char((b[1] % 4) * 16) \o "=="
    ELSE IF Len(b) = 2 THEN
        B64Char(b[1] \div 4) \o B64Char((b[1] % 4) * 16 + b[2] \div 16)
        \o B64Char((b[2] % 16) * 4) \o "="
    ELSE
        B64Char(b[1] \div 4) \o B64Char((b[1] % 4) * 16 + b[2] \div 16)
        \o B64Char((b[2] % 16) * 4 + b[3] \div 64) \o B64Char(b[3] % 64)
        \o ToBase64(SubSeq(b, 4, Len(b)))

(***************************************************************************)
(* crypto.randomBytes.                                                     *)
(***************************************************************************)
Seeds == UNION {[1..k -> ByteVals] : k \in 1..MaxSeed}

Extend(seed, n) == [k \in 1..n |-> seed[((k - 1) % Len(seed)) + 1]]

\* the buffers crypto.randomBytes(n) may return, n >= 0
RandomBytes(n) == {Extend(seed, n) : seed \in Seeds}

\* crypto.randomBytes(size) throws a RangeError for a NaN or negative size
RandomBytesRejects(size) == size.t # "number" \/ size.n < 0

(***************************************************************************)
(* generateRandomString.                                                   *)
(***************************************************************************)
\* NumBytes with Math.floor in place of Math.ceil and no margin
NumBytesFloor(len, enc) ==
    IF len.t # "number" THEN NaN
    ELSE IF enc = "hex" THEN Num(len.n \div 4)
    ELSE Num((3 * len.n) \div 8)

\* NumBytes without the two extra bytes of the base64 encodings
NumBytesNoMargin(len, enc) ==
    IF len.t # "number" THEN NaN
    ELSE IF enc = "hex" THEN Num(CeilDiv(len.n, 4))
    ELSE Num(CeilDiv(3 * len.n, 8))

\* NumBytes using the two-characters-per-byte count for every encoding
NumBytesAsHex(len, enc) ==
    IF len.t # "number" THEN NaN ELSE Num(CeilDiv(len.n, 4))

\* the byte count; Math.ceil of NaN is NaN
NumBytes(len, enc) ==
    IF len.t # "number" THEN NaN
    ELSE IF enc = "hex" THEN Num(CeilDiv(len.n, 4))
    ELSE Num(CeilDiv(3 * len.n, 8) + 2)

\* the text the buffer b is encoded to, before it is cut
Encoded(enc, b) ==
    IF enc = "base64url" THEN
        ReplaceAll(ReplaceAll(ReplaceAll(ToBase64(b), "+", "-"), "/", "_"),
                   "=", "")
    ELSE IF enc = "hex" THEN ToHex(b)
    ELSE ToBase64(b)

\* EncodeAndCut without the replacement of "+" for base64url
EncodeAndCutKeepPlus(len, enc, b) ==
    IF enc = "base64url" THEN
        Substring(ReplaceAll(ReplaceAll(ToBase64(b), "/", "_"), "=", ""), len)
    ELSE IF enc = "hex" THEN Substring(ToHex(b), len)
    ELSE Substring(ToBase64(b), len)

\* the text returned when randomBytes yields the buffer b
EncodeAndCut(len, enc, b) == Substring(Encoded(enc, b), len)

NoError == [name |-> "", message |-> ""]
RangeError == [name |-> "RangeError", message |-> "size is out of range"]
Error(msg) == [name |-> "Error", message |-> msg]

EmptyOptions ==
    [idPrefix |-> Undefined, idLength |-> Undefined,
     secretLength |-> Undefined, encoding |-> Undefined]

EmptyCliOptions ==
    [idPrefix |-> Undefined, idLength |-> Undefined,
     secretLength |-> Undefined, encoding |-> Undefined, json |-> Undefined]

\* lengths a caller may pass: valid ones, zero, negatives, fractions, NaN
Lengths(max) ==
    {Num(k) : k \in 1..max} \cup {Num(0), Num(-1), Num(-4), Halves(1), Halves(3), NaN}

EncodingFormat == {"hex", "base64", "base64url"}

\* a direct call generateRandomString(length, encoding); an omitted encoding
\* is "hex"
InitRandom ==
    /\ pc = "generateRandomString"
    /\ caller = "api"
    /\ args = <<>>
    /\ i = 0
    /\ cliOptions = EmptyCliOptions
    /\ options = EmptyOptions
    /\ idPrefix = Undefined
    /\ idLength = Undefined
    /\ secretLength = Undefined
    /\ \E e \in EncodingFormat \cup {"undefined"} :
           encoding = Str(IF e = "undefined" THEN "hex" ELSE e)
    /\ length \in Lengths(MaxLen)
    /\ draws = <<>>
    /\ result = Undefined
    /\ clientId = Undefined
    /\ clientSecret = Undefined
    /\ thrown = NoError
    /\ stdout = <<>>
    /\ stderr = <<>>
    /\ exitCode = -1

\* generateRandomString, called directly: randomBytes rejects the size
RandomStringThrows ==
    /\ pc = "generateRandomString"
    /\ RandomBytesRejects(NumBytes(length, encoding.s))
    /\ thrown' = RangeError
    /\ pc' = "thrown"
    /\ UNCHANGED <<caller, args, i, cliOptions, options, idPrefix, idLength,
                   secretLength, encoding, length, draws, result, clientId,
                   clientSecret, stdout, stderr, exitCode>>

\* generateRandomString, called directly: draw, encode, cut, return
RandomStringReturns ==
    /\ pc = "generateRandomString"
    /\ ~RandomBytesRejects(NumBytes(length, encoding.s))
    /\ \E b \in RandomBytes(NumBytes(length, encoding.s).n \div 2) :
        /\ draws' = Append(draws, b)
        /\ result' = Str(EncodeAndCut(length, encoding.s, b))
    /\ pc' = "returned"
    /\ UNCHANGED <<caller, args, i, cliOptions, options, idPrefix, idLength,
                   secretLength, encoding, length, clientId, clientSecret,
                   thrown, stdout, stderr, exitCode>>

NextRandom == RandomStringThrows \/ RandomStringReturns

SpecRandom == InitRandom /\ [][NextRandom]_vars

(***************************************************************************)
(* generateOAuthCredentials.                                               *)
(***************************************************************************)
\* a default written with ||: it replaces every falsy value
DefaultFalsy(v, d) ==
    IF v.t \in {"undefined", "NaN"} \/ v = Num(0) \/ v = Str("") THEN d ELSE v

\* a destructuring default: it replaces undefined only
Default(v, d) == IF v = Undefined THEN d ELSE v

\* where a throw lands: the API caller, or the catch block of main
ThrowTo == IF caller = "api" THEN "thrown" ELSE "mainCatch"

OptionValues ==
    [idPrefix : {Undefined, Str(""), Str("p"), Num(5)},
     idLength : {Undefined, Str("2")} \cup Lengths(MaxOptLen),
     secretLength : {Undefined, Str("2")} \cup Lengths(MaxOptLen),
     encoding : {Undefined, Str("bogus")} \cup {Str(e) : e \in EncodingFormat}]

\* a call generateOAuthCredentials(options) from a program using the module
InitCred ==
    /\ pc = "generateOAuthCredentials"
    /\ caller = "api"
    /\ args = <<>>
    /\ i = 0
    /\ cliOptions = EmptyCliOptions
    /\ options \in OptionValues
    /\ idPrefix = Undefined
    /\ idLength = Undefined
    /\ secretLength = Undefined
    /\ encoding = Undefined
    /\ length = Undefined
    /\ draws = <<>>
    /\ result = Undefined
    /\ clientId = Undefined
    /\ clientSecret = Undefined
    /\ thrown = NoError
    /\ stdout = <<>>
    /\ stderr = <<>>
    /\ exitCode = -1

\* const { idPrefix = "oauth", idLength = 24, ... } = options
Destructure ==
    /\ pc = "generateOAuthCredentials"
    /\ idPrefix' = Default(options.idPrefix, Str("oauth"))
    /\ idLength' = Default(options.idLength, Num(24))
    /\ secretLength' = Default(options.secretLength, Num(48))
    /\ encoding' = Default(options.encoding, Str("base64url"))
    /\ pc' = "checkIdPrefix"
    /\ UNCHANGED <<caller, args, i, cliOptions, options, length, draws,
                   result, clientId, clientSecret, thrown, stdout, stderr,
                   exitCode>>

IdPrefixInvalid(v) == TypeOf(v) # "string" \/ Len(v.s) = 0
\* LengthInvalid without the Number.isInteger test
LengthInvalidNoIntegerTest(v) == v.t # "number" \/ v.n < 2
LengthInvalid(v) == ~NumberIsInteger(v) \/ v.n < 2
validEncodings == <<"hex", "base64", "base64url">>
EncodingInvalid(v) ==
    ~\E k \in 1..Len(validEncodings) : v = Str(validEncodings[k])

\* Check when the random bytes are drawn before the options are validated
CheckAfterDraw(at, invalid, msg, next) ==
    /\ pc = at
    /\ IF invalid
       THEN thrown' = Error(msg) /\ pc' = ThrowTo
       ELSE thrown' = thrown /\ pc' = next
    /\ \E b \in RandomBytes(1) : draws' = Append(draws, b)
    /\ UNCHANGED <<caller, args, i, cliOptions, options, idPrefix, idLength,
                   secretLength, encoding, length, result, clientId,
                   clientSecret, stdout, stderr, exitCode>>

\* one validation check: throw Error(msg) or go on to the next position
Check(at, invalid, msg, next) ==
    /\ pc = at
    /\ IF invalid
       THEN thrown' = Error(msg) /\ pc' = ThrowTo
       ELSE thrown' = thrown /\ pc' = next
    /\ UNCHANGED <<caller, args, i, cliOptions, options, idPrefix, idLength,
                   secretLength, encoding, length, draws, result, clientId,
                   clientSecret, stdout, stderr, exitCode>>

CheckIdPrefix ==
    Check("checkIdPrefix", IdPrefixInvalid(idPrefix),
          "idPrefix must be a non-empty string", "checkIdLength")

\* CheckIdLength throwing the message of the secretLength check
CheckIdLengthWrongMessage ==
    Check("checkIdLength", LengthInvalid(idLength),
          "secretLength must be a positive integer", "checkSecretLength")

CheckIdLength ==
    Check("checkIdLength", LengthInvalid(idLength),
          "idLength must be a positive integer", "checkSecretLength")

CheckSecretLength ==
    Check("checkSecretLength", LengthInvalid(secretLength),
          "secretLength must be a positive integer", "checkEncoding")

CheckEncoding ==
    Check("checkEncoding", EncodingInvalid(encoding),
          "encoding must be one of: hex, base64, base64url", "clientId")

\* GenClientId asking for secretLength characters
GenClientIdSecretLength ==
    /\ pc = "clientId"
    /\ ~RandomBytesRejects(NumBytes(secretLength, encoding.s))
    /\ \E b \in RandomBytes(NumBytes(secretLength, encoding.s).n \div 2) :
        /\ draws' = Append(draws, b)
        /\ clientId' =
               Str(idPrefix.s \o "_" \o EncodeAndCut(secretLength, encoding.s, b))
    /\ pc' = "clientSecret"
    /\ UNCHANGED <<caller, args, i, cliOptions, options, idPrefix, idLength,
                   secretLength, encoding, length, result, clientSecret,
                   thrown, stdout, stderr, exitCode>>

\* const clientId = `${idPrefix}_${generateRandomString(idLength, encoding)}`
\* (the lengths have passed validation, so randomBytes accepts the size)
GenClientId ==
    /\ pc = "clientId"
    /\ ~RandomBytesRejects(NumBytes(idLength, encoding.s))
    /\ \E b \in RandomBytes(NumBytes(idLength, encoding.s).n \div 2) :
        /\ draws' = Append(draws, b)
        /\ clientId' =
               Str(idPrefix.s \o "_" \o EncodeAndCut(idLength, encoding.s, b))
    /\ pc' = "clientSecret"
    /\ UNCHANGED <<caller, args, i, cliOptions, options, idPrefix, idLength,
                   secretLength, encoding, length, result, clientSecret,
                   thrown, stdout, stderr, exitCode>>

\* GenClientSecret cutting the secret out of the bytes drawn for clientId
GenClientSecretReusesDraw ==
    /\ pc = "clientSecret"
    /\ clientSecret' =
           Str(EncodeAndCut(secretLength, encoding.s,
                            Extend(draws[1],
                                   NumBytes(secretLength, encoding.s).n \div 2)))
    /\ pc' = IF caller = "api" THEN "returned" ELSE "mainPrint"
    /\ UNCHANGED <<caller, args, i, cliOptions, options, idPrefix, idLength,
                   secretLength, encoding, length, draws, result, clientId,
                   thrown, stdout, stderr, exitCode>>

\* const clientSecret = generateRandomString(secretLength, encoding);
\* return { clientId, clientSecret }
GenClientSecret ==
    /\ pc = "clientSecret"
    /\ ~RandomBytesRejects(NumBytes(secretLength, encoding.s))
    /\ \E b \in RandomBytes(NumBytes(secretLength, encoding.s).n \div 2) :
        /\ draws' = Append(draws, b)
        /\ clientSecret' = Str(EncodeAndCut(secretLength, encoding.s, b))
    /\ pc' = IF caller = "api" THEN "returned" ELSE "mainPrint"
    /\ UNCHANGED <<caller, args, i, cliOptions, options, idPrefix, idLength,
                   secretLength, encoding, length, result, clientId, thrown,
                   stdout, stderr, exitCode>>

NextCred ==
    \/ Destructure
    \/ CheckIdPrefix
    \/ CheckIdLength
    \/ CheckSecretLength
    \/ CheckEncoding
    \/ GenClientId
    \/ GenClientSecret

SpecCred == InitCred /\ [][NextCred]_vars

(***************************************************************************)
(* The command line: parseArgs, showHelp, showVersion, main.               *)
(***************************************************************************)
True == [t |-> "boolean", n |-> 1, s |-> ""]

\* a console line: a template literal and the values interpolated in it
Line(fmt, vals) == [fmt |-> fmt, vals |-> vals]

Digits == "0123456789"
IsDigit(c) == c \in Chars(Digits)
DigitVal(c) == CHOOSE d \in 0..9 : CharAt(Digits, d + 1) = c

RECURSIVE StripLeft(_)
StripLeft(s) ==
    IF Len(s) > 0 /\ CharAt(s, 1) = " " THEN StripLeft(Tail(s)) ELSE s

\* how many leading characters of s are decimal digits
RECURSIVE DigitCount(_)
DigitCount(s) ==
    IF Len(s) > 0 /\ IsDigit(CharAt(s, 1)) THEN 1 + DigitCount(Tail(s)) ELSE 0

\* the value of a string of decimal digits
RECURSIVE DigitsValue(_)
DigitsValue(s) ==
    IF Len(s) = 0 THEN 0
    ELSE 10 * DigitsValue(SubSeq(s, 1, Len(s) - 1)) + DigitVal(CharAt(s, Len(s)))

\* parseInt(v, 10): leading blanks, a sign, then the longest run of digits;
\* NaN when there is no digit (also for undefined, converted to "undefined")
ParseInt(v) ==
    IF v.t # "string" THEN NaN
    ELSE LET t == StripLeft(v.s)
             signed == Len(t) > 0 /\ CharAt(t, 1) \in {"-", "+"}
             body == IF signed THEN Tail(t) ELSE t
             k == DigitCount(body)
             mag == DigitsValue(SubSeq(body, 1, k))
         IN  IF k = 0 THEN NaN
             ELSE Num(IF signed /\ CharAt(t, 1) = "-" THEN -mag ELSE mag)

\* arguments the command line is tried with
Tokens ==
    {"--prefix", "-p", "--id-length", "--secret-length", "--encoding",
     "--json", "--help", "-h", "--version", "-v", "--bogus",
     "app", "2", "1.5", "2abc", "0", "hex"}

\* arguments used as values
ValueTokens == {"app", "2", "1.5", "2abc", "0", "hex"}

\* the flags of each option that takes a value
OptionFlags ==
    {{"--prefix", "-p"}, {"--id-length"}, {"--secret-length"}, {"--encoding"}}

\* the lists in which one option is given twice, each time with a value
RepeatedFlagArgs ==
    UNION {{<<f, v, g, w>> : f \in F, g \in F, v \in ValueTokens,
                              w \in ValueTokens} : F \in OptionFlags}

\* the argument lists the command line is run with
ArgLists == UNION {[1..k -> Tokens] : k \in 0..MaxArgs} \cup RepeatedFlagArgs

\* args[k] of the source (0-based); undefined beyond the end
Arg(k) == IF k < Len(args) THEN Str(args[k + 1]) ELSE Undefined

InitCli ==
    /\ pc = "parseArgs"
    /\ caller = "main"
    /\ args \in ArgLists
    /\ i = 0
    /\ cliOptions = EmptyCliOptions
    /\ options = EmptyOptions
    /\ idPrefix = Undefined
    /\ idLength = Undefined
    /\ secretLength = Undefined
    /\ encoding = Undefined
    /\ length = Undefined
    /\ draws = <<>>
    /\ result = Undefined
    /\ clientId = Undefined
    /\ clientSecret = Undefined
    /\ thrown = NoError
    /\ stdout = <<>>
    /\ stderr = <<>>
    /\ exitCode = -1

\* one loop iteration of a flag that stores a value in options
ParseSet(flags, opts) ==
    /\ pc = "parseArgs"
    /\ i < Len(args)
    /\ args[i + 1] \in flags
    /\ cliOptions' = opts
    /\ UNCHANGED <<pc, caller, args, options, idPrefix, idLength,
                   secretLength, encoding, length, draws, result, clientId,
                   clientSecret, thrown, stdout, stderr, exitCode>>

\* ParsePrefix reading args[i + 1] without advancing i over it
ParsePrefixNoSkip ==
    /\ ParseSet({"--prefix", "-p"},
                [cliOptions EXCEPT !.idPrefix = Arg(i + 1)])
    /\ i' = i + 1

\* case "--prefix": case "-p": options.idPrefix = args[++i]
ParsePrefix ==
    /\ ParseSet({"--prefix", "-p"},
                [cliOptions EXCEPT !.idPrefix = Arg(i + 1)])
    /\ i' = i + 2

\* case "--id-length": options.idLength = parseInt(args[++i], 10)
ParseIdLength ==
    /\ ParseSet({"--id-length"},
                [cliOptions EXCEPT !.idLength = ParseInt(Arg(i + 1))])
    /\ i' = i + 2

\* case "--secret-length": options.secretLength = parseInt(args[++i], 10)
ParseSecretLength ==
    /\ ParseSet({"--secret-length"},
                [cliOptions EXCEPT !.secretLength = ParseInt(Arg(i + 1))])
    /\ i' = i + 2

\* case "--encoding": options.encoding = args[++i]
ParseEncoding ==
    /\ ParseSet({"--encoding"},
                [cliOptions EXCEPT !.encoding = Arg(i + 1)])
    /\ i' = i + 2

\* case "--json": options.json = true
ParseJson ==
    /\ ParseSet({"--json"}, [cliOptions EXCEPT !.json = True])
    /\ i' = i + 1

KnownFlags ==
    {"--prefix", "-p", "--id-length", "--secret-length", "--encoding",
     "--json", "--help", "-h", "--version", "-v"}

\* one loop iteration that ends the process with process.exit(code)
ParseExit(out, err, code) ==
    /\ pc = "parseArgs"
    /\ i < Len(args)
    /\ stdout' = stdout \o out
    /\ stderr' = stderr \o err
    /\ exitCode' = code
    /\ pc' = "exited"
    /\ UNCHANGED <<caller, args, i, cliOptions, options, idPrefix, idLength,
                   secretLength, encoding, length, draws, result, clientId,
                   clientSecret, thrown>>

HelpText == Line("Usage: generate-oauth [options] ...", <<>>)

\* ParseHelp without the process.exit(0): the loop goes on
ParseHelpNoExit ==
    /\ pc = "parseArgs"
    /\ i < Len(args) /\ args[i + 1] \in {"--help", "-h"}
    /\ stdout' = stdout \o <<HelpText>>
    /\ i' = i + 1
    /\ UNCHANGED <<pc, caller, args, cliOptions, options, idPrefix, idLength,
                   secretLength, encoding, length, draws, result, clientId,
                   clientSecret, thrown, stderr, exitCode>>

\* case "--help": case "-h": showHelp(); process.exit(0)
ParseHelp ==
    /\ i < Len(args) /\ args[i + 1] \in {"--help", "-h"}
    /\ ParseExit(<<HelpText>>, <<>>, 0)

\* what showVersion prints: the version of package.json, or the fallback
\* when the file cannot be read
VersionLines ==
    {Line("${0}", <<"packageJson.version">>),
     Line("Version information not available", <<>>)}

\* case "--version": case "-v": showVersion(); process.exit(0)
ParseVersion ==
    /\ i < Len(args) /\ args[i + 1] \in {"--version", "-v"}
    /\ \E v \in VersionLines : ParseExit(<<v>>, <<>>, 0)

\* ParseUnknown writing the error with console.log
ParseUnknownToStdout ==
    /\ i < Len(args) /\ args[i + 1] \notin KnownFlags
    /\ ParseExit(<<Line("Unknown option: ${0}", <<args[i + 1]>>),
                   Line("Use --help for usage information", <<>>)>>, <<>>, 1)

\* default: console.error, console.log, process.exit(1)
ParseUnknown ==
    /\ i < Len(args) /\ args[i + 1] \notin KnownFlags
    /\ ParseExit(<<Line("Use --help for usage information", <<>>)>>,
                 <<Line("Unknown option: ${0}", <<args[i + 1]>>)>>, 1)

\* the loop ends: parseArgs returns, main splits off json and calls
\* generateOAuthCredentials(generatorOptions)
ParseReturn ==
    /\ pc = "parseArgs"
    /\ i >= Len(args)
    /\ options' = [idPrefix |-> cliOptions.idPrefix,
                   idLength |-> cliOptions.idLength,
                   secretLength |-> cliOptions.secretLength,
                   encoding |-> cliOptions.encoding]
    /\ pc' = "generateOAuthCredentials"
    /\ UNCHANGED <<caller, args, i, cliOptions, idPrefix, idLength,
                   secretLength, encoding, length, draws, result, clientId,
                   clientSecret, thrown, stdout, stderr, exitCode>>

\* JSON.stringify(credentials, null, 2)
JsonStringify(id, secret) ==
    Line("{\n  \"clientId\": \"${0}\",\n  \"clientSecret\": \"${1}\"\n}",
         <<id, secret>>)

\* (the emoji of the two decorative lines are left out of the text)
Banner == Line("\n OAuth Credentials Generated:\n", <<>>)
SecurityReminder ==
    Line("\n  Store these securely! The secret should never be committed to version control.\n",
         <<>>)

\* MainPrint adding the security reminder to the JSON output as well
MainPrintAlwaysReminds ==
    /\ pc = "mainPrint"
    /\ stdout' =
         IF cliOptions.json = True
         THEN stdout \o <<JsonStringify(clientId.s, clientSecret.s),
                          SecurityReminder>>
         ELSE stdout \o <<Banner,
                          Line("Client ID:     ${0}", <<clientId.s>>),
                          Line("Client Secret: ${0}", <<clientSecret.s>>),
                          SecurityReminder>>
    /\ exitCode' = 0
    /\ pc' = "exited"
    /\ UNCHANGED <<caller, args, i, cliOptions, options, idPrefix, idLength,
                   secretLength, encoding, length, draws, result, clientId,
                   clientSecret, thrown, stderr>>

\* main, after generateOAuthCredentials returned: print, then the process
\* ends with status 0
MainPrint ==
    /\ pc = "mainPrint"
    /\ stdout' =
         IF cliOptions.json = True
         THEN stdout \o <<JsonStringify(clientId.s, clientSecret.s)>>
         ELSE stdout \o <<Banner,
                          Line("Client ID:     ${0}", <<clientId.s>>),
                          Line("Client Secret: ${0}", <<clientSecret.s>>),
                          SecurityReminder>>
    /\ exitCode' = 0
    /\ pc' = "exited"
    /\ UNCHANGED <<caller, args, i, cliOptions, options, idPrefix, idLength,
                   secretLength, encoding, length, draws, result, clientId,
                   clientSecret, thrown, stderr>>

\* MainCatch without the process.exit(1)
MainCatchNoExit ==
    /\ pc = "mainCatch"
    /\ stderr' = stderr \o <<Line("Error: ${0}", <<thrown.message>>)>>
    /\ thrown' = NoError
    /\ exitCode' = 0
    /\ pc' = "exited"
    /\ UNCHANGED <<caller, args, i, cliOptions, options, idPrefix, idLength,
                   secretLength, encoding, length, draws, result, clientId,
                   clientSecret, stdout>>

\* main, catch (error): every value thrown here is an Error, so the
\* message is printed; process.exit(1)
MainCatch ==
    /\ pc = "mainCatch"
    /\ stderr' = stderr \o <<Line("Error: ${0}", <<thrown.message>>)>>
    /\ thrown' = NoError
    /\ exitCode' = 1
    /\ pc' = "exited"
    /\ UNCHANGED <<caller, args, i, cliOptions, options, idPrefix, idLength,
                   secretLength, encoding, length, draws, result, clientId,
                   clientSecret, stdout>>

NextCli ==
    \/ ParsePrefix
    \/ ParseIdLength
    \/ ParseSecretLength
    \/ ParseEncoding
    \/ ParseJson
    \/ ParseHelp
    \/ ParseVersion
    \/ ParseUnknown
    \/ ParseReturn
    \/ Destructure
    \/ CheckIdPrefix
    \/ CheckIdLength
    \/ CheckSecretLength
    \/ CheckEncoding
    \/ GenClientId
    \/ GenClientSecret
    \/ MainPrint
    \/ MainCatch

SpecCli == InitCli /\ [][NextCli]_vars

Init == InitRandom \/ InitCred \/ InitCli

Next == NextRandom \/ NextCred \/ NextCli

Spec == Init /\ [][Next]_vars

(***************************************************************************)
(* Properties.                                                             *)
(***************************************************************************)
\* an integer >= 1
PositiveInteger(v) == v.t = "number" /\ v.n % 2 = 0 /\ v.n >= 2
\* the integer a PositiveInteger stands for
IntOf(v) == v.n \div 2

Letters == "ABCDEFGHIJKLMNOPQRSTUVWXYZabcdefghijklmnopqrstuvwxyz"
HexSet == Chars("0123456789abcdef")
Base64Set == Chars(Letters) \cup Chars(Digits) \cup {"+", "/"}
Base64UrlSet == Chars(Letters) \cup Chars(Digits) \cup {"-", "_"}

\* s is over the standard base64 alphabet, then at most two "="
Base64Shaped(s) ==
    \E pad \in 0..2 :
        /\ pad <= Len(s)
        /\ Chars(SubSeq(s, 1, Len(s) - pad)) \subseteq Base64Set
        /\ Chars(SubSeq(s, Len(s) - pad + 1, Len(s))) \subseteq {"="}

InAlphabet(s, enc) ==
    IF enc = "hex" THEN Chars(s) \subseteq HexSet
    ELSE IF enc = "base64url" THEN Chars(s) \subseteq Base64UrlSet
    ELSE Base64Shaped(s)

\* C1: a direct call of generateRandomString with an integer length >= 1 and
\* one of the three encodings returns, and returns exactly length characters,
\* whatever bytes were drawn.
C1_ExactLength ==
    (pc # "generateRandomString" /\ PositiveInteger(length))
        => /\ pc = "returned"
           /\ result.t = "string"
           /\ Len(result.s) = IntOf(length)

C1_Witness ==
    /\ pc = "returned"
    /\ length = Num(5)
    /\ encoding = Str("base64url")
    /\ Len(result.s) = 5
    /\ Len(draws[1]) = 6

\* C2: for an integer length >= 1 the returned text is over the alphabet of
\* the encoding: hex [0-9a-f]; base64url [A-Za-z0-9_-]; base64 [A-Za-z0-9+/]
\* followed by at most two "=".
C2_Alphabet ==
    (pc = "returned" /\ PositiveInteger(length) /\ result.t = "string")
        => InAlphabet(result.s, encoding.s)

\* a base64url result whose bytes encode to "+" and "/" in plain base64
C2_Witness ==
    /\ pc = "returned"
    /\ length = Num(4)
    /\ encoding = Str("base64url")
    /\ result = Str("_v7-")

\* C3: a returned pair has clientId = idPrefix, "_", then exactly idLength
\* characters, and a clientSecret of exactly secretLength characters that is
\* the generator's output for the second draw, with nothing added.
C3_PairShape ==
    (caller = "api" /\ pc = "returned")
        => /\ Len(clientId.s) = Len(idPrefix.s) + 1 + IntOf(idLength)
           /\ SubSeq(clientId.s, 1, Len(idPrefix.s) + 1) = idPrefix.s \o "_"
           /\ InAlphabet(SubSeq(clientId.s, Len(idPrefix.s) + 2,
                                Len(clientId.s)), encoding.s)
           /\ Len(clientSecret.s) = IntOf(secretLength)
           /\ InAlphabet(clientSecret.s, encoding.s)
           /\ (encoding.s = "hex" => "_" \notin Chars(clientSecret.s))

C3_Witness ==
    /\ caller = "api"
    /\ pc = "returned"
    /\ options.idPrefix = Str("p")
    /\ options.idLength = Num(1)
    /\ options.secretLength = Num(3)
    /\ options.encoding = Str("hex")
    /\ Len(clientId.s) = 3
    /\ Len(clientSecret.s) = 3

\* the effective value of an option: the default when it is omitted
Effective(v, d) == IF v.t = "undefined" THEN d ELSE v
EffIdPrefix == Effective(options.idPrefix, Str("oauth"))
EffIdLength == Effective(options.idLength, Num(24))
EffSecretLength == Effective(options.secretLength, Num(48))
EffEncoding == Effective(options.encoding, Str("base64url"))

\* the four rules of the options, on the effective values
RuleIdPrefix == EffIdPrefix.t = "string" /\ Len(EffIdPrefix.s) >= 1
RuleIdLength == PositiveInteger(EffIdLength)
RuleSecretLength == PositiveInteger(EffSecretLength)
RuleEncoding ==
    EffEncoding.t = "string" /\ EffEncoding.s \in {"hex", "base64", "base64url"}
AllRules == RuleIdPrefix /\ RuleIdLength /\ RuleSecretLength /\ RuleEncoding

CredDone == caller = "api" /\ pc \in {"thrown", "returned"}

\* C4: generateOAuthCredentials throws a validation Error if and only if one
\* of the four rules fails on the effective options; otherwise it returns a
\* pair.
C4_ThrowsIffInvalid ==
    /\ CredDone =>
          /\ (pc = "thrown") <=> ~AllRules
          /\ (pc = "thrown") => thrown.name = "Error"
          /\ (pc = "returned") =>
                 /\ thrown = NoError
                 /\ clientId.t = "string"
                 /\ clientSecret.t = "string"
    /\ (caller = "api" /\ pc \in {"clientId", "clientSecret"}) => AllRules

\* idLength 1.5 alone is rejected
C4_Witness ==
    /\ CredDone
    /\ pc = "thrown"
    /\ options.idLength = Halves(3)
    /\ RuleIdPrefix /\ RuleSecretLength /\ RuleEncoding

\* the message of the first rule that fails, in the order idPrefix, idLength,
\* secretLength, encoding
FirstFailure ==
    IF ~RuleIdPrefix THEN "idPrefix must be a non-empty string"
    ELSE IF ~RuleIdLength THEN "idLength must be a positive integer"
    ELSE IF ~RuleSecretLength THEN "secretLength must be a positive integer"
    ELSE IF ~RuleEncoding THEN "encoding must be one of: hex, base64, base64url"
    ELSE ""

\* C5: the error thrown is the one of the first failing check in the order
\* idPrefix, idLength, secretLength, encoding.
C5_FirstFailureReported ==
    (caller = "api" /\ pc = "thrown") => thrown = Error(FirstFailure)

\* idLength, secretLength and encoding all invalid: idLength is reported
C5_Witness ==
    /\ caller = "api"
    /\ pc = "thrown"
    /\ RuleIdPrefix /\ ~RuleIdLength /\ ~RuleSecretLength /\ ~RuleEncoding
    /\ thrown.message = "idLength must be a positive integer"

\* C6: no byte is drawn before all four checks have passed; a call that
\* throws has drawn nothing and has built no credential.
C6_NoDrawBeforeValid ==
    /\ (caller = "api" /\ draws # <<>>) =>
          (AllRules /\ pc \in {"clientSecret", "returned"})
    /\ (caller = "api" /\ pc = "thrown") =>
          (draws = <<>> /\ clientId = Undefined /\ clientSecret = Undefined)

\* only the last check, the one of encoding, fails
C6_Witness ==
    /\ caller = "api"
    /\ pc = "thrown"
    /\ RuleIdPrefix /\ RuleIdLength /\ RuleSecretLength /\ ~RuleEncoding
    /\ draws = <<>>

\* C7: once the options are destructured, each effective value is the
\* supplied one, or its default (oauth, 24, 48, base64url) when omitted,
\* whatever the other options are; the call with no options returns "oauth_"
\* and 24 base64url characters, and a secret of 48 base64url characters.
C7_Defaults ==
    /\ (caller = "api" /\ pc # "generateOAuthCredentials") =>
          /\ idPrefix = EffIdPrefix
          /\ idLength = EffIdLength
          /\ secretLength = EffSecretLength
          /\ encoding = EffEncoding
    /\ (caller = "api" /\ options = EmptyOptions
          /\ pc \notin {"generateOAuthCredentials", "checkIdPrefix",
                        "checkIdLength", "checkSecretLength",
                        "checkEncoding", "clientId", "clientSecret"}) =>
          /\ pc = "returned"
          /\ Len(clientId.s) = 6 + 24
          /\ SubSeq(clientId.s, 1, 6) = "oauth_"
          /\ Chars(SubSeq(clientId.s, 7, 30)) \subseteq Base64UrlSet
          /\ Len(clientSecret.s) = 48
          /\ Chars(clientSecret.s) \subseteq Base64UrlSet

\* only idLength is supplied: the three others take their defaults
C7_Witness ==
    /\ caller = "api"
    /\ pc = "returned"
    /\ options = [EmptyOptions EXCEPT !.idLength = Num(2)]
    /\ Len(clientId.s) = 6 + 2
    /\ Len(clientSecret.s) = 48

\* C8: a direct call of generateRandomString with a length that is not an
\* integer >= 1 is rejected with a validation error before any byte is
\* drawn, and never returns a string.
C8_InvalidLengthRejected ==
    (pc # "generateRandomString" /\ ~PositiveInteger(length))
        => /\ pc = "thrown"
           /\ thrown.name # ""
           /\ draws = <<>>
           /\ result = Undefined

ValueFlags ==
    {"--prefix", "-p", "--id-length", "--secret-length", "--encoding"}

\* the positions of a (1-based) the argument loop examines as flags, from p
RECURSIVE FlagPositions(_, _)
FlagPositions(a, p) ==
    IF p > Len(a) THEN {}
    ELSE {p} \cup (IF a[p] \in ValueFlags THEN FlagPositions(a, p + 2)
                   ELSE IF a[p] = "--json" THEN FlagPositions(a, p + 1)
                   ELSE {})

\* an argument that looks like a flag and is none of the flags of the table
UnknownFlag(s) == Len(s) > 0 /\ CharAt(s, 1) = "-" /\ s \notin KnownFlags

NoCredentialsPrinted ==
    /\ draws = <<>>
    /\ clientId = Undefined
    /\ clientSecret = Undefined
    /\ \A k \in 1..Len(stdout) : stdout[k].vals = <<>>

\* C9 as stated: every argument list that contains an unknown flag ends with
\* the error naming it on stderr, the --help hint, a non-zero status and no
\* credentials.
C9_AnyUnknownFlagRejected ==
    (caller = "main" /\ pc = "exited")
        => \A k \in 1..Len(args) :
              UnknownFlag(args[k]) =>
                  /\ exitCode # 0 /\ exitCode # -1
                  /\ stderr = <<Line("Unknown option: ${0}", <<args[k]>>)>>
                  /\ stdout = <<Line("Use --help for usage information", <<>>)>>
                  /\ NoCredentialsPrinted

\* C9 amended: when the argument loop examines, in flag position (not as the
\* value of a preceding value flag, and with no --help or --version before
\* it), an argument that is none of the known flags, the process ends with
\* "Unknown option: <argument>" on stderr, the --help hint on stdout, status
\* 1 and no credentials.
C9_ExaminedUnknownRejected ==
    (caller = "main" /\ pc = "exited")
        => \A k \in FlagPositions(args, 1) :
              args[k] \notin KnownFlags =>
                  /\ exitCode = 1
                  /\ stderr = <<Line("Unknown option: ${0}", <<args[k]>>)>>
                  /\ stdout = <<Line("Use --help for usage information", <<>>)>>
                  /\ NoCredentialsPrinted

\* an unknown flag after a fully parsed --json
C9_Witness ==
    /\ caller = "main"
    /\ pc = "exited"
    /\ args = <<"--json", "--bogus">>
    /\ exitCode = 1
    /\ stderr = <<Line("Unknown option: ${0}", <<"--bogus">>)>>

\* the run printed credentials and ended with status 0
CliSuccess ==
    caller = "main" /\ pc = "exited" /\ exitCode = 0 /\ draws # <<>>

JsonParsed == \E k \in FlagPositions(args, 1) : args[k] = "--json"

\* C10: on a successful run, stdout is the JSON object alone when --json was
\* parsed as a flag, and otherwise the banner, the "Client ID:" line, the
\* "Client Secret:" line and the security reminder.
C10_OutputForm ==
    CliSuccess =>
        /\ stderr = <<>>
        /\ JsonParsed =>
              stdout = <<JsonStringify(clientId.s, clientSecret.s)>>
        /\ ~JsonParsed =>
              stdout = <<Banner,
                         Line("Client ID:     ${0}", <<clientId.s>>),
                         Line("Client Secret: ${0}", <<clientSecret.s>>),
                         SecurityReminder>>

C10_Witness ==
    /\ CliSuccess
    /\ args = <<"-p", "app">>
    /\ Len(stdout) = 4
    /\ stdout[4] = SecurityReminder

C10_WitnessJson ==
    /\ CliSuccess
    /\ args = <<"--json">>
    /\ Len(stdout) = 1

\* parseArgs returned: the loop ran to the end of args without process.exit
ParseCompleted ==
    caller = "main" /\ pc # "parseArgs"
        /\ \A k \in FlagPositions(args, 1) : args[k] \in ValueFlags \cup {"--json"}

\* C11: when the options parsed from the command line fail a rule of
\* generateOAuthCredentials, the run ends with "Error: " and the message of
\* the error on stderr, status 1, nothing on stdout and no credentials.
C11_ValidationErrorReported ==
    (ParseCompleted /\ pc = "exited" /\ ~AllRules) =>
        /\ stderr = <<Line("Error: ${0}", <<FirstFailure>>)>>
        /\ exitCode = 1
        /\ stdout = <<>>
        /\ thrown = NoError
        /\ NoCredentialsPrinted

C11_Witness ==
    /\ pc = "exited"
    /\ args = <<"--id-length", "0", "--json">>
    /\ stderr = <<Line("Error: ${0}", <<"idLength must be a positive integer">>)>>
    /\ exitCode = 1

\* the position at which the argument loop reaches --help/-h or
\* --version/-v, or 0 when it reaches none
InfoPosition ==
    LET hit == {k \in FlagPositions(args, 1) :
                    args[k] \in {"--help", "-h", "--version", "-v"}}
    IN  IF hit = {} THEN 0 ELSE CHOOSE k \in hit : TRUE

\* nothing of generateOAuthCredentials has run
NothingGenerated ==
    /\ options = EmptyOptions
    /\ idPrefix = Undefined /\ idLength = Undefined
    /\ secretLength = Undefined /\ encoding = Undefined
    /\ draws = <<>>
    /\ clientId = Undefined /\ clientSecret = Undefined
    /\ thrown = NoError

\* C12: when the argument loop reaches --help/-h or --version/-v, the run
\* never leaves parseArgs except by exiting there: it ends with the usage
\* text (or the version line) alone on stdout and status 0, the loop index
\* still on that argument (later arguments are not examined), no option
\* validated and no credentials generated.
C12_InfoExitsAtOnce ==
    (caller = "main" /\ InfoPosition # 0) =>
        /\ pc \in {"parseArgs", "exited"}
        /\ NothingGenerated
        /\ stderr = <<>>
        /\ i <= InfoPosition - 1
        /\ pc = "exited" =>
              /\ exitCode = 0
              /\ i = InfoPosition - 1
              /\ IF args[InfoPosition] \in {"--help", "-h"}
                 THEN stdout = <<HelpText>>
                 ELSE Len(stdout) = 1 /\ stdout[1] \in VersionLines

\* an invalid --id-length parsed before --help is never validated
C12_Witness ==
    /\ pc = "exited"
    /\ args = <<"--id-length", "0", "--help">>
    /\ cliOptions.idLength = Num(0)
    /\ exitCode = 0
    /\ stdout = <<HelpText>>

\* the byte count the formulas give for the integer n >= 1:
\* ceil(n / 2) for hex, ceil(3n / 4) + 2 for base64 and base64url
BytesFor(n, enc) ==
    IF enc = "hex" THEN (n + 1) \div 2 ELSE (3 * n + 3) \div 4 + 2

\* C13: for an integer length >= 1 the buffer drawn has ceil(length/2) bytes
\* for hex and ceil(length*3/4)+2 bytes for base64 and base64url, and the
\* encoded text has at least length characters before it is cut (for
\* base64url: once "+" and "/" are replaced and every "=" is removed).
C13_EnoughBytes ==
    (pc = "returned" /\ caller = "api" /\ PositiveInteger(length)) =>
        /\ Len(draws) = 1
        /\ Len(draws[1]) = BytesFor(IntOf(length), encoding.s)
        /\ Len(Encoded(encoding.s, draws[1])) >= IntOf(length)
        /\ (encoding.s = "base64url" =>
               "=" \notin Chars(Encoded(encoding.s, draws[1])))

\* base64url, length 2: four bytes, "xxxxxx==" in base64, six characters once
\* the padding is removed
C13_Witness ==
    /\ pc = "returned"
    /\ length = Num(2)
    /\ encoding = Str("base64url")
    /\ Len(draws[1]) = 4
    /\ Len(ToBase64(draws[1])) = 8
    /\ Len(Encoded("base64url", draws[1])) = 6

\* C14: a returned call has made exactly two draws, the first of the byte
\* count of idLength and the second of the byte count of secretLength, both
\* encoded with the same effective encoding; the clientId suffix is the
\* encoding of the first draw and clientSecret the encoding of the second.
C14_TwoIndependentDraws ==
    /\ (caller = "api" /\ pc = "clientSecret") =>
          /\ Len(draws) = 1
          /\ clientSecret = Undefined
    /\ (caller = "api" /\ pc = "returned") =>
          /\ Len(draws) = 2
          /\ encoding = EffEncoding
          /\ Len(draws[1]) = BytesFor(IntOf(EffIdLength), encoding.s)
          /\ Len(draws[2]) = BytesFor(IntOf(EffSecretLength), encoding.s)
          /\ clientId.s = EffIdPrefix.s \o "_"
                 \o Substring(Encoded(encoding.s, draws[1]), EffIdLength)
          /\ clientSecret.s =
                 Substring(Encoded(encoding.s, draws[2]), EffSecretLength)

\* the two draws differ, and so do the suffix and the secret
C14_Witness ==
    /\ caller = "api"
    /\ pc = "returned"
    /\ options.idLength = Num(2)
    /\ options.secretLength = Num(2)
    /\ options.encoding = Str("hex")
    /\ draws = <<<<0>>, <<254>>>>
    /\ clientSecret = Str("fe")

\* the characters of s before the first c (all of s when c does not occur)
RECURSIVE UpTo(_, _)
UpTo(s, c) ==
    IF Len(s) = 0 \/ CharAt(s, 1) = c THEN ""
    ELSE CharAt(s, 1) \o UpTo(Tail(s), c)

\* s.split("_")[1] for a text s that holds a "_"
SplitElement1(s) ==
    UpTo(SubSeq(s, Len(UpTo(s, "_")) + 2, Len(s)), "_")

\* C15: for hex and base64url and an idPrefix without "_", element 1 of
\* clientId split on "_" is a non-empty text over the encoding's alphabet,
\* whatever bytes were drawn.
C15_SplitSuffixNonEmpty ==
    (caller = "api" /\ pc = "returned"
        /\ encoding.s \in {"hex", "base64url"}
        /\ "_" \notin Chars(idPrefix.s)) =>
        /\ SplitElement1(clientId.s) # ""
        /\ InAlphabet(SplitElement1(clientId.s), encoding.s)

\* C16: for base64 and an integer length >= 1 the cut falls before the "="
\* padding of the encoded text: the returned text has no "=" and is made of
\* the first length characters of the unpadded encoding.
C16_Base64NeverPadded ==
    (pc = "returned" /\ caller = "api" /\ PositiveInteger(length)
        /\ encoding.s = "base64") =>
        /\ "=" \notin Chars(result.s)
        /\ Chars(result.s) \subseteq Base64Set
        /\ IntOf(length) <= Len(ReplaceAll(ToBase64(draws[1]), "=", ""))

\* length 2: the four bytes drawn encode to a text ending in "=="
C16_Witness ==
    /\ pc = "returned"
    /\ length = Num(2)
    /\ encoding = Str("base64")
    /\ SubSeq(ToBase64(draws[1]), 7, 8) = "=="
    /\ Len(result.s) = 2

\* s is the decimal text of an integer >= 1
IntegerText(s) ==
    /\ Len(s) >= 1
    /\ \A k \in 1..Len(s) : IsDigit(CharAt(s, k))
    /\ DigitsValue(s) >= 1

\* C17, on the argument lists made of one length flag and its value: a value
\* that is not the text of an integer >= 1 ends the run with the "must be a
\* positive integer" error of that option and status 1; a value that is the
\* text of the integer n >= 1 gives a random part of exactly n characters.
C17_CliIntegerRule ==
    (caller = "main" /\ pc = "exited" /\ Len(args) = 2
        /\ args[1] \in {"--id-length", "--secret-length"}) =>
        IF IntegerText(args[2])
        THEN /\ exitCode = 0
             /\ args[1] = "--id-length" =>
                    Len(clientId.s) = Len("oauth_") + DigitsValue(args[2])
             /\ args[1] = "--secret-length" =>
                    Len(clientSecret.s) = DigitsValue(args[2])
        ELSE /\ exitCode = 1
             /\ NoCredentialsPrinted
             /\ stderr = <<Line("Error: ${0}",
                    <<IF args[1] = "--id-length"
                      THEN "idLength must be a positive integer"
                      ELSE "secretLength must be a positive integer">>)>>

\* the last position at which the loop examines one of the flags F, or 0
LastFlag(F) ==
    LET hit == {k \in FlagPositions(args, 1) : args[k] \in F}
    IN  IF hit = {} THEN 0 ELSE CHOOSE k \in hit : \A j \in hit : j <= k

\* the argument after position k, undefined when k is the last position
ValueAfter(k) == IF k < Len(args) THEN Str(args[k + 1]) ELSE Undefined

\* the options parseArgs is to return for args: each option from the
\* argument after the last occurrence of its flag, json from --json in flag
\* position
ExpectedCliOptions ==
    [idPrefix |->
        IF LastFlag({"--prefix", "-p"}) = 0 THEN Undefined
        ELSE ValueAfter(LastFlag({"--prefix", "-p"})),
     idLength |->
        IF LastFlag({"--id-length"}) = 0 THEN Undefined
        ELSE ParseInt(ValueAfter(LastFlag({"--id-length"}))),
     secretLength |->
        IF LastFlag({"--secret-length"}) = 0 THEN Undefined
        ELSE ParseInt(ValueAfter(LastFlag({"--secret-length"}))),
     encoding |->
        IF LastFlag({"--encoding"}) = 0 THEN Undefined
        ELSE ValueAfter(LastFlag({"--encoding"})),
     json |-> IF JsonParsed THEN True ELSE Undefined]

TrailingPrefix == LastFlag({"--prefix", "-p"}) = Len(args) /\ Len(args) > 0

\* C18: when parseArgs returns, every value flag has taken the argument after
\* it as its value, whatever that argument is (it is never examined as a
\* flag), the last occurrence of a repeated flag decides, and a trailing
\* --prefix/-p leaves idPrefix undefined, so that the effective idPrefix is
\* "oauth" and no idPrefix error is raised.
C18_ValueFlagsConsumeNext ==
    ParseCompleted =>
        /\ cliOptions = ExpectedCliOptions
        /\ i >= Len(args)
        /\ (TrailingPrefix /\ pc \notin {"generateOAuthCredentials"}) =>
              /\ idPrefix = Str("oauth")
              /\ thrown.message # "idPrefix must be a non-empty string"
              /\ \A k \in 1..Len(stderr) :
                    stderr[k].vals # <<"idPrefix must be a non-empty string">>
              /\ (pc = "exited" /\ exitCode = 0) =>
                    SubSeq(clientId.s, 1, 6) = "oauth_"

\* a repeated flag: the second value is the prefix
C18_Witness ==
    /\ pc = "exited"
    /\ args = <<"-p", "app", "--prefix", "hex">>
    /\ exitCode = 0
    /\ SubSeq(clientId.s, 1, 4) = "hex_"

\* --json in value position is the prefix and does not switch to JSON
C18_WitnessFlagAsValue ==
    /\ pc = "exited"
    /\ args = <<"--prefix", "--json">>
    /\ exitCode = 0
    /\ SubSeq(clientId.s, 1, 7) = "--json_"
    /\ Len(stdout) = 4

\* a trailing --prefix
C18_WitnessTrailing ==
    /\ pc = "exited"
    /\ args = <<"--json", "--prefix">>
    /\ exitCode = 0
    /\ SubSeq(clientId.s, 1, 6) = "oauth_"

====
